---- MODULE Spec2Model ----
(***************************************************************************)
(* Model of import_tracker: the dependency discovery of track_module       *)
(* (import_tracker/import_tracker.py) and the requirements partitioning of *)
(* parse_requirements (import_tracker/setup_tools.py).                     *)
(*                                                                         *)
(* A module name is a string, modelled as a sequence of one-character      *)
(* strings with "." as the separator, so that str.startswith,              *)
(* str.partition and str.split are computed the way the code computes them.*)
(***************************************************************************)
EXTENDS Integers, Sequences, FiniteSets, TLC

\* ------------------------------------------------------------------------
\* Strings
\* ------------------------------------------------------------------------

\* str.startswith
StartsWith(s, p) == Len(p) <= Len(s) /\ SubSeq(s, 1, Len(p)) = p

\* index of the first "." of s, or Len(s)+1 when there is none
FirstDot(s) ==
    IF \E k \in 1..Len(s) : s[k] = "."
    THEN CHOOSE k \in 1..Len(s) : s[k] = "." /\ \A j \in 1..(k-1) : s[j] # "."
    ELSE Len(s) + 1

\* name.partition(".")[0]
Partition0(s) == SubSeq(s, 1, FirstDot(s) - 1)

\* the lengths at which a dotted prefix of s ends: ".".join(parts[:i])
DotCuts(s) == {k \in 1..Len(s) : k = Len(s) \/ s[k+1] = "."}

\* [".".join(parts[:i+1]) for i in range(len(parts))], as a set
DottedPrefixes(s) == {SubSeq(s, 1, k) : k \in DotCuts(s)}

\* the permutations of a finite set, as sequences (an iteration order)
Perms(S) ==
    {f \in [1..Cardinality(S) -> S] : \A x \in S : \E i \in DOMAIN f : f[i] = x}

\* the elements of a sequence
Range(f) == {f[i] : i \in DOMAIN f}

\* position of a character in the collating order of the alphabet in use
CharRank(c) ==
    CASE c = " " -> 1
      [] c = "#" -> 2
      [] c = "-" -> 3
      [] c = "." -> 4
      [] c = "1" -> 5
      [] c = "=" -> 6
      [] c = "A" -> 7
      [] c = "_" -> 8
      [] c = "a" -> 9
      [] c = "b" -> 10
      [] c = "c" -> 11
      [] c = "i" -> 12
      [] c = "l" -> 13
      [] c = "s" -> 14
      [] c = "t" -> 15
      [] c = "u" -> 16
      [] c = "x" -> 17
      [] OTHER -> 18

\* a < b for strings (lexicographic)
RECURSIVE StrLess(_, _)
StrLess(a, b) ==
    IF a = <<>> THEN b # <<>>
    ELSE IF b = <<>> THEN FALSE
    ELSE IF a[1] # b[1] THEN CharRank(a[1]) < CharRank(b[1])
    ELSE StrLess(Tail(a), Tail(b))

\* sorted(S) for a set of strings
RECURSIVE Sorted(_)
Sorted(S) ==
    IF S = {} THEN <<>>
    ELSE LET m == CHOOSE x \in S : \A y \in S \ {x} : StrLess(x, y)
         IN  <<m>> \o Sorted(S \ {m})

\* ------------------------------------------------------------------------
\* The loaded modules (sys.modules) and their import statements
\* ------------------------------------------------------------------------

\* the tracked library and its sub-modules
L   == <<"l">>
LA  == <<"l", ".", "a">>
LAB == <<"l", ".", "a", ".", "b">>
\* installed packages outside the library; LX begins with the library's name
T   == <<"t">>
TS  == <<"t", ".", "s">>
U   == <<"u">>
LX  == <<"l", "x">>
\* a standard-library module, and the tracking package itself
S   == <<"s">>
IT  == <<"i">>
\* namespace packages (directories without __init__.py): inside the library
\* and outside it
LN  == <<"l", ".", "n">>
N   == <<"n">>

Modules == {L, LA, LAB, T, TS, U, LX, S, IT, LN, N}

\* the modules whose file lies in the standard library directories
StdLibModules == {S}

\* the modules whose __file__ is None
NoFileModules == {LN, N}

\* the import statements a world may contain: importer and imported module
CandImports ==
    { <<L, LA>>, <<L, LAB>>, <<LA, LAB>>, <<LA, L>>,
      <<L, T>>, <<LA, T>>, <<LAB, T>>, <<LA, TS>>,
      <<L, LX>>, <<T, U>>, <<T, LX>>, <<T, TS>>,
      <<L, S>>, <<L, IT>> }

\* an import statement: guarded (inside a try block) or not
CandEdges == {[src |-> p[1], dst |-> p[2], opt |-> o] : p \in CandImports, o \in BOOLEAN}

\* the largest number of import statements in a world
MaxEdges == 3

\* the sets of at most k import statements
RECURSIVE EdgeSets(_)
EdgeSets(k) ==
    IF k = 0 THEN {{}}
    ELSE LET prev == EdgeSets(k - 1)
         IN  prev \cup {X \cup {e} : X \in prev, e \in CandEdges}

\* the modules track_module may be asked about: modules of the library, or
\* the tracking package itself
Targets == {L, LA, IT}

\* the largest number of _get_imports calls on one module that is counted
MaxExtracted == 3

\* ------------------------------------------------------------------------
\* State
\* ------------------------------------------------------------------------
VARIABLES
    sys_modules,            \* names of the loaded modules
    imports,                \* module -> [req, opt]: what _get_imports returns for it
    full_depth,             \* argument of track_module
    module_name,            \* full_module_name, the target
    pc,                     \* position in track_module
    modules_to_check,       \* the work-set of the current discovery round
    round_done,             \* the modules of the round the for loop has visited
    next_modules_to_check,
    checked_modules,
    module_deps_map,        \* module -> (dependency -> optional flag)
    module_deps_order,      \* insertion order of module_deps_map's keys
    extracted,              \* module -> number of _get_imports calls on it
    submodules,             \* argument of track_module: [all, names]
    output_mods,
    parent_direct_deps,     \* set of <<module, parent, dependency>>
    flat_mod,               \* the module _flatten_deps is running for, as a set
    all_deps_keys,          \* insertion order of all_deps' keys
    all_deps,               \* dependency -> list of stacks
    mods_to_check,          \* the rest of the round's dict, a list of [mod, path]
    next_mods_to_check,
    flattened_deps,         \* output module -> [deps, optional]
    flags,                  \* detect_transitive, track_import_stack, show_optional
    deps_out,               \* the value track_module returns
    run,                    \* 1 in the first call of track_module, 2 in a repeated one
    prev_out                \* the value the first call returned

build_vars == <<modules_to_check, round_done, next_modules_to_check,
                checked_modules, module_deps_map, module_deps_order, extracted>>
world_vars == <<sys_modules, imports, full_depth, module_name>>
select_vars == <<submodules, output_mods, parent_direct_deps>>
flatten_vars == <<flat_mod, all_deps_keys, all_deps, mods_to_check,
                  next_mods_to_check, flattened_deps>>
out_vars == <<flags, deps_out>>
rerun_vars == <<run, prev_out>>

VARIABLES
    pr_pc,                  \* position of the call of parse_requirements
    MODULE_TO_PKG,          \* the installed module name -> package names index
    requirements_lines,     \* argument of parse_requirements, a list of lines
    library_name,           \* argument of parse_requirements
    extras_modules,         \* argument of parse_requirements: [given, mods]
    requirements,           \* standardized name -> stripped line
    library_import_mapping, \* what track_module returned: module -> import names
    import_sets,
    common_imports,
    extras_require_sets,
    missing_reqs,
    ret_requirements,       \* first element of the returned pair
    ret_extras_require      \* second element of the returned pair

req_vars == <<pr_pc, MODULE_TO_PKG, requirements_lines, library_name, extras_modules,
              requirements, library_import_mapping, import_sets, common_imports,
              extras_require_sets, missing_reqs, ret_requirements, ret_extras_require>>

\* the variables of parse_requirements before it is called
ReqIdle ==
    /\ requirements_lines = <<>>
    /\ library_name = <<>>
    /\ extras_modules = [given |-> FALSE, mods |-> <<>>]
    /\ requirements = <<>>
    /\ library_import_mapping = <<>>
    /\ import_sets = <<>>
    /\ common_imports = {}
    /\ extras_require_sets = <<>>
    /\ missing_reqs = {}
    /\ ret_requirements = <<>>
    /\ ret_extras_require = <<>>

VARIABLES
    module_dep_mapping,     \* import_exp: _module_dep_mapping, name -> required imports
    required_imports        \* the last call of get_required_imports: [name, outcome, value]

util_vars == <<module_dep_mapping, required_imports>>

\* import_exp after the module is loaded, before any call
UtilIdle ==
    /\ module_dep_mapping = <<>>
    /\ required_imports = [name |-> <<>>, outcome |-> "none", value |-> <<>>]

VARIABLES
    sys_meta_path,          \* sys.meta_path, a list of finders
    TRACKING_MODE,          \* lazy_import_errors: _TRACKING_MODE
    ctx_stack,              \* the open with-blocks, outermost first: [pkg, inner_exited, deferring]
    lazy_modules,           \* the placeholder modules the loader has put in sys.modules
    last_op                 \* the last import or use of a placeholder and its outcome

lazy_vars == <<sys_meta_path, TRACKING_MODE, ctx_stack, lazy_modules, last_op>>

\* kind: what was done last; pkg: the package whose code did it; name: the
\* module imported; op: the use made of a placeholder; outcome: what came of
\* it; depth: how many attribute accesses the held attribute is from the module
NoOp == [kind |-> "none", pkg |-> "", name |-> "", op |-> "", outcome |-> "none", depth |-> 0]

\* the interpreter before lazy_import_errors is used
LazyIdle ==
    /\ sys_meta_path = <<>>
    /\ TRACKING_MODE = FALSE
    /\ ctx_stack = <<>>
    /\ lazy_modules = {}
    /\ last_op = NoOp

VARIABLES
    gi_pc,                  \* position of the call of _get_imports
    gi_mod,                 \* its argument: [name, in_init]
    bcode,                  \* the lines of bcode.dis(), a list of instructions
    line_no,                \* index of the next line of the for loop
    current_dots,
    current_import_name,
    current_import_from,
    open_import,
    open_tries,
    req_imports,
    opt_imports,
    import_log,             \* the imports added, as logged: [line, target, optional]
    recorded_deps           \* module_deps_map[mod] as track_module builds it from the result

dis_vars == <<gi_pc, gi_mod, bcode, line_no, current_dots, current_import_name,
              current_import_from, open_import, open_tries, req_imports, opt_imports,
              import_log, recorded_deps>>

\* before _get_imports is called
DisIdle ==
    /\ gi_pc = "idle"
    /\ gi_mod = [name |-> <<>>, in_init |-> FALSE]
    /\ bcode = <<>>
    /\ line_no = 0
    /\ current_dots = -1
    /\ current_import_name = <<>>
    /\ current_import_from = <<>>
    /\ open_import = FALSE
    /\ open_tries = {}
    /\ req_imports = {}
    /\ opt_imports = {}
    /\ import_log = <<>>
    /\ recorded_deps = <<>>

VARIABLES
    mn_pc,                  \* position of main in its recursion (lines 557-639)
    num_jobs,               \* args.num_jobs
    recursive_internals,    \* the sub-modules to recurse on, in order
    job_deps,               \* what tracking each module finds: module -> imports
    futures,                \* the submitted jobs: [mod, state, result]
    merge_idx,              \* index of the next future, or sub-module, to merge
    downstream_mapping,     \* dict in insertion order: [mod, deps]
    completed,              \* the sub-modules in the order their jobs finished
    output_dict             \* what main prints

main_vars == <<mn_pc, num_jobs, recursive_internals, job_deps, futures, merge_idx,
               downstream_mapping, completed, output_dict>>

\* main is not running
MainIdle ==
    /\ mn_pc = "idle"
    /\ num_jobs = 0
    /\ recursive_internals = <<>>
    /\ job_deps = <<>>
    /\ futures = <<>>
    /\ merge_idx = 0
    /\ downstream_mapping = <<>>
    /\ completed = <<>>
    /\ output_dict = <<>>

aux_vars == <<util_vars, lazy_vars, dis_vars, main_vars>>

AuxIdle == UtilIdle /\ LazyIdle /\ DisIdle /\ MainIdle

\* ------------------------------------------------------------------------
\* Classification
\* ------------------------------------------------------------------------

\* constants.THIS_PACKAGE
THIS_PACKAGE == IT

\* _known_std_pkgs ("collections")
known_std_pkgs == {<<"c">>}

\* _get_import_parent_path(mod_name) in [_std_lib_dir, _std_dylib_dir]: the
\* path is _std_lib_dir for a module without a file path
InStdDir(loaded, mod_name) ==
    /\ mod_name \in loaded
    /\ (mod_name \in NoFileModules \/ mod_name \in StdLibModules)

\* the classification without the test on the tracking package
IsThirdPartyOrThisPackage(loaded, mod_name) ==
    /\ ~StartsWith(mod_name, <<"_">>)
    /\ (mod_name \notin loaded \/ ~InStdDir(loaded, mod_name))
    /\ Partition0(mod_name) \notin known_std_pkgs

IsThirdParty(loaded, mod_name) ==
    /\ ~StartsWith(mod_name, <<"_">>)
    /\ (mod_name \notin loaded \/ ~InStdDir(loaded, mod_name))
    /\ Partition0(mod_name) # THIS_PACKAGE
    /\ Partition0(mod_name) \notin known_std_pkgs

GetNonStdModules(loaded, mod_names) == {n \in mod_names : IsThirdParty(loaded, n)}

\* ------------------------------------------------------------------------
\* track_module: building the dependency map (the while loop)
\* ------------------------------------------------------------------------

tracked_module_root_pkg == Partition0(module_name)

\* lines 80-100: the entry of module_deps_map for a module, from what
\* _get_imports returned for it
ModuleDeps(loaded, req, opt) ==
    [mod \in GetNonStdModules(loaded, req \cup opt) |-> mod \in opt]

\* the next round when the imports are not tested against checked_modules
NewToCheckNoVisited(non_std, checked, fd, root) ==
    {mod \in non_std : fd \/ Partition0(mod) = root}

\* the modules one import set adds to the next round
NewToCheck(non_std, checked, fd, root) ==
    {mod \in non_std : mod \notin checked /\ (fd \/ Partition0(mod) = root)}

\* "Also check modules with intermediate names"
ParentMods(next, loaded, checked) ==
    {p \in UNION {DottedPrefixes(mod) : mod \in next} : p \in loaded /\ p \notin checked}

\* the modules the discovery loop can reach from a set of modules: one round
ReachStep(E, R, fd, root) ==
    R \cup UNION {DottedPrefixes(e.dst) :
                    e \in {x \in E : x.src \in R /\ (fd \/ Partition0(x.dst) = root)}}

RECURSIVE Reach(_, _, _, _)
Reach(E, R, fd, root) ==
    LET R2 == ReachStep(E, R, fd, root)
    IN  IF R2 = R THEN R ELSE Reach(E, R2, fd, root)

\* every import statement of the world is in a module the discovery can reach
\* from the target, or in an ancestor package of one (an import statement of
\* any other module is never read)
Relevant(E, target, fd) ==
    LET R == Reach(E, {target}, fd, Partition0(target))
    IN  \A e \in E : e.src \in UNION {DottedPrefixes(m) : m \in R}

\* the state when track_module is called, in one of the given worlds (sets of
\* import statements)
InitTrackOf(worlds) ==
    /\ sys_modules = Modules
    /\ full_depth \in BOOLEAN
    /\ module_name \in Targets
    /\ \E E \in worlds :
         /\ Relevant(E, module_name, full_depth)
         /\ imports = [m \in Modules |->
                      [req |-> {e.dst : e \in {x \in E : x.src = m /\ ~x.opt}},
                       opt |-> {e.dst : e \in {x \in E : x.src = m /\ x.opt}}]]
    /\ pc = "build"
    /\ modules_to_check = {module_name}
    /\ round_done = {}
    /\ next_modules_to_check = {}
    /\ checked_modules = {}
    /\ module_deps_map = <<>>
    /\ module_deps_order = <<>>
    /\ extracted = [m \in Modules |-> 0]
    /\ submodules = [all |-> FALSE, names |-> {}]
    /\ output_mods = {}
    /\ parent_direct_deps = {}
    /\ flat_mod = {}
    /\ all_deps_keys = <<>>
    /\ all_deps = <<>>
    /\ mods_to_check = <<>>
    /\ next_mods_to_check = <<>>
    /\ flattened_deps = <<>>
    /\ flags = [detect_transitive |-> FALSE, track_import_stack |-> FALSE,
                show_optional |-> FALSE]
    /\ deps_out = <<>>
    /\ run = 1
    /\ prev_out = <<>>
    /\ pr_pc = "idle"
    /\ MODULE_TO_PKG = <<>>
    /\ ReqIdle
    /\ AuxIdle

\* the state when track_module is called, in a world of at most k import statements
InitTrack(k) == InitTrackOf(EdgeSets(k))

Init == InitTrack(MaxEdges)

\* one iteration of "for module_to_check in modules_to_check", followed by the
\* end of the round when it was the last one
CheckModule(m) ==
    /\ pc = "build"
    /\ m \in modules_to_check \ round_done
    /\ LET opt_dep_names == imports[m].opt
           module_import_names == imports[m].req \cup imports[m].opt
           non_std_module_names == GetNonStdModules(sys_modules, module_import_names)
           deps == ModuleDeps(sys_modules, imports[m].req, imports[m].opt)
           next1 == next_modules_to_check \cup
                    NewToCheck(non_std_module_names, checked_modules,
                               full_depth, tracked_module_root_pkg)
           next2 == next1 \cup ParentMods(next1, sys_modules, checked_modules)
           last == round_done \cup {m} = modules_to_check
       IN  /\ module_deps_map' =
                 [k \in (DOMAIN module_deps_map) \cup {m} |->
                     IF k = m THEN deps ELSE module_deps_map[k]]
           /\ module_deps_order' =
                 IF m \in DOMAIN module_deps_map THEN module_deps_order
                 ELSE Append(module_deps_order, m)
           /\ checked_modules' = checked_modules \cup {m}
           /\ extracted' = [extracted EXCEPT ![m] = IF @ < MaxExtracted THEN @ + 1 ELSE @]
           /\ IF last
              THEN /\ modules_to_check' = next2
                   /\ round_done' = {}
                   /\ next_modules_to_check' = {}
                   /\ pc' = IF next2 = {} THEN "select" ELSE "build"
              ELSE /\ modules_to_check' = modules_to_check
                   /\ round_done' = round_done \cup {m}
                   /\ next_modules_to_check' = next2
                   /\ pc' = "build"
    /\ UNCHANGED <<aux_vars, req_vars, world_vars, select_vars, flatten_vars, out_vars, rerun_vars>>

\* ------------------------------------------------------------------------
\* track_module: the output modules and _find_parent_direct_deps
\* ------------------------------------------------------------------------

\* the values of the submodules argument that are tried
SubmodulesArgs ==
    { [all |-> FALSE, names |-> {}],
      [all |-> TRUE,  names |-> {}],
      [all |-> FALSE, names |-> {LA, U}] }

OutputMods(target, sub, scanned) ==
    {target} \cup
    IF sub.all \/ sub.names # {}
    THEN {mod \in scanned :
            \/ (sub.all /\ StartsWith(mod, target))
            \/ (~sub.all /\ mod \in sub.names)}
    ELSE {}

\* a finite set of numbers in increasing order
RECURSIVE Ascending(_)
Ascending(K) ==
    IF K = {} THEN <<>>
    ELSE LET m == CHOOSE x \in K : \A y \in K : x <= y
         IN  <<m>> \o Ascending(K \ {m})

\* [".".join(mod_name_parts[:i]) for i in range(1, len(mod_name_parts))]
StrictParents(mod) ==
    LET cuts == Ascending({k \in DotCuts(mod) : k < Len(mod)})
    IN  [i \in DOMAIN cuts |-> SubSeq(mod, 1, cuts[i])]

\* a module takes every third-party dependency of a parent, whatever the flag
\* of its own entry for it
TakesFromParentAlways(mod_deps, mod_base_name, dep) ==
    ~StartsWith(dep, mod_base_name)

\* should module mod take dependency dep from a parent (line 509)
TakesFromParent(mod_deps, mod_base_name, dep) ==
    /\ ~StartsWith(dep, mod_base_name)
    /\ (IF dep \in DOMAIN mod_deps THEN mod_deps[dep] ELSE TRUE)

\* the body of "for i in range(1, len(mod_name_parts))" for one parent
GraftParent(st, mod_name, parent) ==
    LET mod_deps == st.map[mod_name]
        parent_deps == IF parent \in DOMAIN st.map THEN st.map[parent] ELSE <<>>
        graft == {dep \in DOMAIN parent_deps :
                    TakesFromParent(mod_deps, Partition0(mod_name), dep)}
        new_deps == [d \in (DOMAIN mod_deps) \cup graft |->
                       IF d \in graft THEN parent_deps[d] ELSE mod_deps[d]]
    IN  [map |-> [k \in DOMAIN st.map |-> IF k = mod_name THEN new_deps ELSE st.map[k]],
         pdd |-> st.pdd \cup {<<mod_name, parent, dep>> : dep \in graft}]

RECURSIVE GraftParents(_, _, _)
GraftParents(st, mod_name, parents) ==
    IF parents = <<>> THEN st
    ELSE GraftParents(GraftParent(st, mod_name, Head(parents)), mod_name, Tail(parents))

\* _find_parent_direct_deps: the modules of the map in insertion order
RECURSIVE FindParentDirectDeps(_, _)
FindParentDirectDeps(order, st) ==
    IF order = <<>> THEN st
    ELSE FindParentDirectDeps(Tail(order),
                              GraftParents(st, Head(order), StrictParents(Head(order))))

\* lines 152-168
SelectOutputs ==
    /\ pc = "select"
    /\ \E sub \in SubmodulesArgs :
         /\ run = 1 \/ sub = submodules
         /\ submodules' = sub
         /\ output_mods' = OutputMods(module_name, sub, DOMAIN module_deps_map)
    /\ LET st == FindParentDirectDeps(module_deps_order,
                                      [map |-> module_deps_map, pdd |-> {}])
       IN  /\ module_deps_map' = st.map
           /\ parent_direct_deps' = st.pdd
    \* the insertion order of module_deps_map is not read after this point
    /\ module_deps_order' = <<>>
    /\ pc' = "flatten"
    /\ UNCHANGED <<aux_vars, req_vars, world_vars, modules_to_check, round_done, next_modules_to_check,
                   checked_modules, extracted, flatten_vars, out_vars, rerun_vars>>

\* ------------------------------------------------------------------------
\* _flatten_deps
\* ------------------------------------------------------------------------

\* dict.update with the pairs of a list, in order: a present key keeps its place
RECURSIVE DictUpdate(_, _)
DictUpdate(d, items) ==
    IF items = <<>> THEN d
    ELSE LET it == Head(items)
             upd == IF \E i \in DOMAIN d : d[i].mod = it.mod
                    THEN [i \in DOMAIN d |-> IF d[i].mod = it.mod THEN it ELSE d[i]]
                    ELSE Append(d, it)
         IN  DictUpdate(upd, Tail(items))

\* all_deps.setdefault(dep, []).append(stack) for every stack of a list
AppendStacks(ad, dep, stacks) ==
    IF stacks = <<>> THEN ad
    ELSE [keys |-> IF dep \in DOMAIN ad.map THEN ad.keys ELSE Append(ad.keys, dep),
          map  |-> [k \in (DOMAIN ad.map) \cup {dep} |->
                      IF k = dep
                      THEN (IF dep \in DOMAIN ad.map THEN ad.map[dep] ELSE <<>>) \o stacks
                      ELSE ad.map[k]]]

\* the stacks one dependency of the checked module adds (lines 553-578)
StacksFor(ad, pdd, mod_to_check, mod_path, mod_dep) ==
    LET IsDirectParent(p) == <<mod_to_check, p, mod_dep>> \in pdd
        direct_parents == SelectSeq(StrictParents(mod_to_check), IsDirectParent)
        present == IF mod_dep \in DOMAIN ad.map THEN Range(ad.map[mod_dep]) ELSE {}
        NotPresent(p) == <<p>> \notin present
        missing == SelectSeq(direct_parents, NotPresent)
    IN  IF direct_parents # <<>>
        THEN [i \in DOMAIN missing |-> <<missing[i]>> \o mod_path]
        ELSE <<mod_path>>

\* "for mod_dep in mod_deps", in the iteration order ord
RECURSIVE AddDeps(_, _, _, _, _)
AddDeps(ad, pdd, mod_to_check, mod_path, ord) ==
    IF ord = <<>> THEN ad
    ELSE AddDeps(AppendStacks(ad, Head(ord),
                              StacksFor(ad, pdd, mod_to_check, mod_path, Head(ord))),
                 pdd, mod_to_check, mod_path, Tail(ord))

\* module_deps_map.get(mod, {})
DepsOf(map, mod) == IF mod \in DOMAIN map THEN map[mod] ELSE <<>>

\* module_deps_map.get(dep_parent, {}).get(dep_mod, False)
OptionalLink(map, dep_parent, dep_mod) ==
    /\ dep_parent \in DOMAIN map
    /\ dep_mod \in DOMAIN map[dep_parent]
    /\ map[dep_parent][dep_mod]

\* "If any link in the dep_source is optional" (lines 598-610)
SourceIsOptional(map, dep_source, dep) ==
    LET chain == dep_source \o <<dep>>
    IN  \E i \in 1..Len(dep_source) : OptionalLink(map, chain[i], chain[i+1])

\* dep_source[: dep_source.index(dep_root_mod_name)] when the root is in it
FlatDepSource(dep_source, root) ==
    IF \E i \in DOMAIN dep_source : dep_source[i] = root
    THEN LET k == CHOOSE i \in DOMAIN dep_source :
                     dep_source[i] = root /\ \A j \in 1..(i-1) : dep_source[j] # root
         IN  SubSeq(dep_source, 1, k - 1)
    ELSE dep_source

\* dict.setdefault(key, default), then the value at key replaced by val
SetKey(f, key, val) == [k \in (DOMAIN f) \cup {key} |-> IF k = key THEN val ELSE f[k]]
GetOr(f, key, default) == IF key \in DOMAIN f THEN f[key] ELSE default

\* "for dep_source in dep_sources" (lines 593-622)
RECURSIVE FlatSources(_, _, _, _)
FlatSources(fl, map, dep, dep_sources) ==
    IF dep_sources = <<>> THEN fl
    ELSE LET root == Partition0(dep)
             src == Head(dep_sources)
             flat_src == FlatDepSource(src, root)
             old == GetOr(fl.deps, root, <<>>)
             new == IF flat_src \in Range(old) THEN old ELSE Append(old, flat_src)
             opts == Append(GetOr(fl.opts, root, <<>>), SourceIsOptional(map, src, dep))
         IN  FlatSources([deps |-> SetKey(fl.deps, root, new),
                          opts |-> SetKey(fl.opts, root, opts)],
                         map, dep, Tail(dep_sources))

\* is dep outside the library of module_name (line 588)
IsExternalDep(dep, mod_base_name) == ~StartsWith(dep, mod_base_name)

\* "for dep, dep_sources in all_deps.items()" (lines 587-622)
RECURSIVE FlatDeps(_, _, _, _, _)
FlatDeps(fl, map, ad, keys, mod_base_name) ==
    IF keys = <<>> THEN fl
    ELSE LET dep == Head(keys)
             fl2 == IF IsExternalDep(dep, mod_base_name)
                    THEN FlatSources(fl, map, dep, ad[dep])
                    ELSE fl
         IN  FlatDeps(fl2, map, ad, Tail(keys), mod_base_name)

\* the pair _flatten_deps returns (lines 583-628)
FlattenResult(map, keys, ad, mod) ==
    LET fl == FlatDeps([deps |-> <<>>, opts |-> <<>>], map, ad, keys, Partition0(mod))
    IN  [deps |-> fl.deps,
         optional |-> [r \in DOMAIN fl.opts |->
                          \A i \in DOMAIN fl.opts[r] : fl.opts[r][i]]]

\* a call _flatten_deps(mod, ...) of the comprehension at lines 171-174 begins
FlattenStart(mod) ==
    /\ pc = "flatten"
    /\ flat_mod = {}
    /\ mod \in output_mods \ DOMAIN flattened_deps
    /\ flat_mod' = {mod}
    /\ all_deps_keys' = <<>>
    /\ all_deps' = <<>>
    /\ mods_to_check' = <<[mod |-> mod, path |-> <<>>]>>
    /\ next_mods_to_check' = <<>>
    /\ UNCHANGED <<aux_vars, req_vars, world_vars, pc, build_vars, select_vars, flattened_deps, out_vars, rerun_vars>>

\* one iteration of "for mod_to_check, parent_path in mods_to_check.items()",
\* followed by the end of the round when it was the last one
FlattenCheck ==
    /\ pc = "flatten"
    /\ flat_mod # {}
    /\ mods_to_check # <<>>
    /\ LET mod_to_check == Head(mods_to_check).mod
           mod_path == Append(Head(mods_to_check).path, mod_to_check)
           mod_deps == DOMAIN DepsOf(module_deps_map, mod_to_check)
           new_mods == mod_deps \ Range(all_deps_keys)
       IN  \E ins \in Perms(new_mods), ord \in Perms(mod_deps) :
             LET next == DictUpdate(next_mods_to_check,
                                    [i \in DOMAIN ins |-> [mod |-> ins[i], path |-> mod_path]])
                 ad == AddDeps([keys |-> all_deps_keys, map |-> all_deps],
                               parent_direct_deps, mod_to_check, mod_path, ord)
             IN  /\ all_deps_keys' = ad.keys
                 /\ all_deps' = ad.map
                 /\ IF Len(mods_to_check) = 1
                    THEN /\ mods_to_check' = next
                         /\ next_mods_to_check' = <<>>
                    ELSE /\ mods_to_check' = Tail(mods_to_check)
                         /\ next_mods_to_check' = next
    /\ UNCHANGED <<aux_vars, req_vars, world_vars, pc, build_vars, select_vars, flat_mod,
                   flattened_deps, out_vars, rerun_vars>>

\* the while loop of _flatten_deps ended: lines 583-628
FlattenDone ==
    /\ pc = "flatten"
    /\ flat_mod # {}
    /\ mods_to_check = <<>>
    /\ LET mod == CHOOSE m \in flat_mod : TRUE
           res == FlattenResult(module_deps_map, all_deps_keys, all_deps, mod)
       IN  /\ flattened_deps' = SetKey(flattened_deps, mod, res)
           /\ pc' = IF (DOMAIN flattened_deps) \cup {mod} = output_mods
                    THEN "format" ELSE "flatten"
    /\ flat_mod' = {}
    /\ all_deps_keys' = <<>>
    /\ all_deps' = <<>>
    /\ UNCHANGED <<aux_vars, req_vars, world_vars, build_vars, select_vars, mods_to_check,
                   next_mods_to_check, out_vars, rerun_vars>>

\* ------------------------------------------------------------------------
\* track_module: the returned value (lines 177-219)
\* ------------------------------------------------------------------------

TYPE_DIRECT == "direct"
TYPE_TRANSITIVE == "transitive"

\* lines 196-200
DepType(dep_stacks) ==
    IF \E i \in DOMAIN dep_stacks : Len(dep_stacks[i]) = 1
    THEN TYPE_DIRECT ELSE TYPE_TRANSITIVE

InfoKeys(fl) ==
    (IF fl.detect_transitive THEN {"type"} ELSE {}) \cup
    (IF fl.track_import_stack THEN {"stack"} ELSE {}) \cup
    (IF fl.show_optional THEN {"optional"} ELSE {})

DepInfo(res, dep_name, key) ==
    CASE key = "type" -> DepType(res.deps[dep_name])
      [] key = "stack" -> res.deps[dep_name]
      [] OTHER -> GetOr(res.optional, dep_name, FALSE)

DepsOut(flat, fl) ==
    IF InfoKeys(fl) = {}
    THEN [mod \in DOMAIN flat |-> Sorted(DOMAIN flat[mod].deps)]
    ELSE [mod \in DOMAIN flat |->
            [dep_name \in DOMAIN flat[mod].deps |->
               [key \in InfoKeys(fl) |-> DepInfo(flat[mod], dep_name, key)]]]

NoFlags == [detect_transitive |-> FALSE, track_import_stack |-> FALSE,
            show_optional |-> FALSE]

\* the combinations of detect_transitive, track_import_stack and show_optional
\* that are tried
FlagsArgs ==
    { NoFlags,
      [NoFlags EXCEPT !.detect_transitive = TRUE],
      [NoFlags EXCEPT !.show_optional = TRUE],
      [detect_transitive |-> TRUE, track_import_stack |-> TRUE, show_optional |-> TRUE] }

\* the return value is built, for one of the given flag combinations
FormatWith(args) ==
    /\ pc = "format"
    /\ \E fl \in args :
         /\ run = 1 \/ fl = flags
         /\ flags' = fl
         /\ deps_out' = DepsOut(flattened_deps, fl)
    /\ pc' = "done"
    /\ UNCHANGED <<aux_vars, req_vars, world_vars, build_vars, select_vars, flatten_vars, run, prev_out>>

Format == FormatWith(FlagsArgs)

\* ------------------------------------------------------------------------
\* A second call of track_module with the same arguments on the same modules
\* ------------------------------------------------------------------------
Rerun ==
    /\ pc = "done"
    /\ run = 1
    /\ run' = 2
    /\ prev_out' = deps_out
    /\ pc' = "build"
    /\ modules_to_check' = {module_name}
    /\ round_done' = {}
    /\ next_modules_to_check' = {}
    /\ checked_modules' = {}
    /\ module_deps_map' = <<>>
    /\ module_deps_order' = <<>>
    /\ extracted' = [m \in Modules |-> 0]
    /\ output_mods' = {}
    /\ parent_direct_deps' = {}
    /\ flattened_deps' = <<>>
    /\ deps_out' = <<>>
    /\ UNCHANGED <<aux_vars, req_vars, world_vars, submodules, flat_mod, all_deps_keys, all_deps,
                   mods_to_check, next_mods_to_check, flags>>

track_vars == <<world_vars, pc, build_vars, select_vars, flatten_vars, out_vars, rerun_vars>>

vars == <<track_vars, req_vars, aux_vars>>

Next ==
    \/ \E m \in Modules : CheckModule(m)
    \/ SelectOutputs
    \/ \E m \in Modules : FlattenStart(m)
    \/ FlattenCheck
    \/ FlattenDone
    \/ Format

Spec == Init /\ [][Next]_vars

\* the largest number of import statements in a world track_module is run on twice
MaxEdgesTwice == 2

InitTwice == InitTrack(MaxEdgesTwice)

NextTwice == Next \/ Rerun

SpecTwice == InitTwice /\ [][NextTwice]_vars

\* ------------------------------------------------------------------------
\* track_module run to its end, on worlds with import cycles and modules that
\* import themselves
\* ------------------------------------------------------------------------

\* the largest number of import statements in such a world
MaxEdgesLive == 3

\* the import statements of these worlds: l and l.a import each other, l, l.a
\* and l.a.b import each other in a ring, l imports itself
LiveImports ==
    { <<L, LA>>, <<LA, L>>, <<LA, LAB>>, <<LAB, L>>, <<L, L>> }

LiveEdges == {[src |-> p[1], dst |-> p[2], opt |-> FALSE] : p \in LiveImports}

\* the subsets of at most k elements of a set
RECURSIVE SubsetsUpTo(_, _)
SubsetsUpTo(C, k) ==
    IF k = 0 THEN {{}}
    ELSE LET prev == SubsetsUpTo(C, k - 1)
         IN  prev \cup {X \cup {e} : X \in prev, e \in C}

InitLive == InitTrackOf(SubsetsUpTo(LiveEdges, MaxEdgesLive))

\* a call with every flag set
AllFlags == [detect_transitive |-> TRUE, track_import_stack |-> TRUE, show_optional |-> TRUE]

NextLive ==
    \/ \E m \in Modules : CheckModule(m)
    \/ SelectOutputs
    \/ \E m \in Modules : FlattenStart(m)
    \/ FlattenCheck
    \/ FlattenDone
    \/ FormatWith({AllFlags})

\* the interpreter keeps executing the call: a step that can be taken is
\* eventually taken
SpecLive == InitLive /\ [][NextLive]_vars /\ WF_vars(NextLive)

\* ------------------------------------------------------------------------
\* track_module on worlds with namespace packages (modules without a file)
\* ------------------------------------------------------------------------

\* the largest number of import statements in such a world
MaxEdgesNamespace == 2

\* the import statements of these worlds: the namespace packages l.n and n
\* are imported next to a module with a file, a standard and a third-party one
NamespaceImports ==
    { <<L, LN>>, <<LA, LN>>, <<L, N>>, <<L, S>>, <<L, T>>, <<LN, T>>, <<L, LA>> }

NamespaceEdges ==
    {[src |-> p[1], dst |-> p[2], opt |-> o] : p \in NamespaceImports, o \in BOOLEAN}

InitNamespace == InitTrackOf(SubsetsUpTo(NamespaceEdges, MaxEdgesNamespace))

SpecNamespace == InitNamespace /\ [][Next]_vars

\* ------------------------------------------------------------------------
\* track_module on worlds where packages and their sub-modules import the
\* same third-party modules
\* ------------------------------------------------------------------------

\* the largest number of import statements in such a world
MaxEdgesAugment == 3

\* the import statements of these worlds: l, l.a and l.a.b import t, inside a
\* try block or outside
AugmentImports ==
    { <<L, LA>>, <<L, LAB>>, <<LA, LAB>>, <<L, T>>, <<LA, T>>, <<LAB, T>>, <<LA, U>> }

AugmentEdges ==
    {[src |-> p[1], dst |-> p[2], opt |-> o] : p \in AugmentImports, o \in BOOLEAN}

InitAugment == InitTrackOf(SubsetsUpTo(AugmentEdges, MaxEdgesAugment))

SpecAugment == InitAugment /\ [][Next]_vars

\* ------------------------------------------------------------------------
\* track_module on worlds where modules import the tracking package
\* ------------------------------------------------------------------------

\* the largest number of import statements in such a world
MaxEdgesTracker == 3

\* the import statements of these worlds: modules of the library and a
\* third-party module import import_tracker
TrackerImports ==
    { <<L, IT>>, <<LA, IT>>, <<T, IT>>, <<L, LA>>, <<L, T>>, <<LA, T>> }

TrackerEdges ==
    {[src |-> p[1], dst |-> p[2], opt |-> o] : p \in TrackerImports, o \in BOOLEAN}

InitTracker == InitTrackOf(SubsetsUpTo(TrackerEdges, MaxEdgesTracker))

SpecTracker == InitTracker /\ [][Next]_vars

\* ------------------------------------------------------------------------
\* setup_tools: parse_requirements
\* ------------------------------------------------------------------------

\* str.strip, for the whitespace of the alphabet in use
RECURSIVE LStrip(_)
LStrip(s) == IF s # <<>> /\ s[1] = " " THEN LStrip(Tail(s)) ELSE s

RECURSIVE RStrip(_)
RStrip(s) ==
    IF s # <<>> /\ s[Len(s)] = " " THEN RStrip(SubSeq(s, 1, Len(s) - 1)) ELSE s

Strip(s) == RStrip(LStrip(s))

\* str.lower, for the letters of the alphabet in use
Lower(s) == [i \in DOMAIN s |-> IF s[i] = "A" THEN "a" ELSE s[i]]

\* s.replace("-", "_")
ReplaceDash(s) == [i \in DOMAIN s |-> IF s[i] = "-" THEN "_" ELSE s[i]]

\* _REQ_SPLIT_EXPR.split(line, 1)[0]
ReqSplit0(line) ==
    LET hits == {k \in 1..Len(line) : line[k] \in {"=", ">", "<", "!", "~", "["}}
    IN  IF hits = {} THEN line
        ELSE SubSeq(line, 1, (CHOOSE k \in hits : \A j \in hits : k <= j) - 1)

StandardizePackageName(raw_package_name) ==
    ReplaceDash(Lower(Strip(raw_package_name)))

ALL_GROUP == <<"a", "l", "l">>

\* the dict comprehension that builds requirements; a later line replaces an
\* earlier one of the same key
RECURSIVE LoadRequirements(_, _)
LoadRequirements(lines, d) ==
    IF lines = <<>> THEN d
    ELSE LET line == Head(lines)
         IN  LoadRequirements(Tail(lines),
                 IF Strip(line) # <<>> /\ ~StartsWith(line, <<"#">>)
                 THEN SetKey(d, StandardizePackageName(ReqSplit0(line)), Strip(line))
                 ELSE d)

\* _get_required_packages_for_imports; its callers make a set of the list
GetRequiredPackagesForImports(index, imps) ==
    UNION {IF mod \in DOMAIN index THEN index[mod] ELSE {mod} : mod \in imps}

\* the intersection of all import sets (there is at least one)
CommonImports(sets) ==
    {x \in UNION {sets[k] : k \in DOMAIN sets} : \A k \in DOMAIN sets : x \in sets[k]}

\* extras that keep the common imports (what the subtraction below prevents)
ExtrasRequireSetsKeepCommon(sets, common) == sets

\* the import sets without the common imports
ExtrasRequireSets(sets, common) == [k \in DOMAIN sets |-> sets[k] \ common]

AllTrackedRequirements(extras, common) ==
    common \cup UNION {extras[k] : k \in DOMAIN extras}

MissingReqs(index, reqs, tracked) ==
    GetRequiredPackagesForImports(index, DOMAIN reqs) \ tracked

WithAllGroup(extras, all_reqs) ==
    IF ALL_GROUP \in DOMAIN extras THEN extras ELSE SetKey(extras, ALL_GROUP, all_reqs)

\* {key.replace("-", "_"): val for key, val in requirements.items()}
StandardizedRequirements(reqs) ==
    [k2 \in {ReplaceDash(k) : k \in DOMAIN reqs} |->
        reqs[CHOOSE k \in DOMAIN reqs : ReplaceDash(k) = k2]]

\* _map_requirements: one entry per dependency that has a declared key, sorted
RECURSIVE SortedEntries(_, _)
SortedEntries(declared, deps) ==
    IF deps = {} THEN <<>>
    ELSE LET d == CHOOSE x \in deps : \A y \in deps :
                      ~StrLess(declared[ReplaceDash(y)], declared[ReplaceDash(x)])
         IN  <<declared[ReplaceDash(d)]>> \o SortedEntries(declared, deps \ {d})

MapRequirements(declared_dependencies, dependency_set) ==
    SortedEntries(declared_dependencies,
                  {dep \in dependency_set : ReplaceDash(dep) \in DOMAIN declared_dependencies})

\* -- the inputs that are tried --

MaxReqs == 2
MaxDeps == 2

\* requirement lines: a version pin on an upper-case name, a dashed name, a
\* name with white space around it, a comment, a blank line
LineCands ==
    { <<"A", "=", "1">>, <<"a", "-", "b">>, <<" ", "b", " ">>, <<"#", "a">>, <<" ">> }

RequirementsArgs == UNION {[1..n -> LineCands] : n \in 0..MaxReqs}

\* the names track_module reports
ImportNames == { <<"A">>, <<"b">>, <<"x">> }

DepSets == {D \in SUBSET ImportNames : Cardinality(D) <= MaxDeps}

Libraries == {L, ALL_GROUP}

SubOf(lib) == lib \o <<".", "a">>

\* extras_modules: not given (None), an empty list, or a list of modules
NoExtras == [given |-> FALSE, mods |-> <<>>]

ExtrasArgs(lib) ==
    { NoExtras,
      [given |-> TRUE, mods |-> <<>>],
      [given |-> TRUE, mods |-> <<SubOf(lib)>>],
      [given |-> TRUE, mods |-> <<lib, SubOf(lib)>>] }

\* what track_module can return for the library: the library alone or with
\* its submodule
Mappings(lib) == [{lib} -> DepSets] \cup [{lib, SubOf(lib)} -> DepSets]

\* the installed packages: none recorded; module x installed by package a_b;
\* module b installed by package a
Indexes ==
    { <<>>, (<<"x">> :> {<<"a", "_", "b">>}), (<<"b">> :> {<<"a">>}) }

\* track_module is not running
TrackIdle ==
    /\ sys_modules = {}
    /\ imports = <<>>
    /\ full_depth = FALSE
    /\ module_name = <<>>
    /\ pc = "idle"
    /\ modules_to_check = {}
    /\ round_done = {}
    /\ next_modules_to_check = {}
    /\ checked_modules = {}
    /\ module_deps_map = <<>>
    /\ module_deps_order = <<>>
    /\ extracted = <<>>
    /\ submodules = [all |-> FALSE, names |-> {}]
    /\ output_mods = {}
    /\ parent_direct_deps = {}
    /\ flat_mod = {}
    /\ all_deps_keys = <<>>
    /\ all_deps = <<>>
    /\ mods_to_check = <<>>
    /\ next_mods_to_check = <<>>
    /\ flattened_deps = <<>>
    /\ flags = NoFlags
    /\ deps_out = <<>>
    /\ run = 1
    /\ prev_out = <<>>

InitReq ==
    /\ TrackIdle
    /\ pr_pc = "idle"
    /\ MODULE_TO_PKG \in Indexes
    /\ ReqIdle
    /\ AuxIdle

\* the body of parse_requirements from the requirements dict on, for the
\* mapping its call of track_module returned
Partition(lines, lib, extras, mapping) ==
    LET reqs == LoadRequirements(lines, <<>>)
        mods == IF extras.mods # <<>> THEN Range(extras.mods) ELSE DOMAIN mapping
        missing_extras_modules == {mod \in mods : mod \notin DOMAIN mapping}
        sets == [mod \in mods |->
                   GetRequiredPackagesForImports(MODULE_TO_PKG, mapping[mod])]
        common == CommonImports(sets)
        extra_sets == ExtrasRequireSets(sets, common)
        all_tracked_requirements == AllTrackedRequirements(extra_sets, common)
        missing == MissingReqs(MODULE_TO_PKG, reqs, all_tracked_requirements)
        common2 == common \cup missing
        extra_sets2 == WithAllGroup(extra_sets, all_tracked_requirements \cup missing)
        standardized_requirements == StandardizedRequirements(reqs)
    IN  /\ requirements_lines' = lines
        /\ library_name' = lib
        /\ extras_modules' = extras
        /\ requirements' = reqs
        /\ library_import_mapping' = mapping
        /\ IF missing_extras_modules # {}
           THEN /\ pr_pc' = "AssertionError"
                /\ UNCHANGED <<import_sets, common_imports, extras_require_sets,
                               missing_reqs, ret_requirements, ret_extras_require>>
           ELSE /\ pr_pc' = "done"
                /\ import_sets' = sets
                /\ common_imports' = common2
                /\ extras_require_sets' = extra_sets2
                /\ missing_reqs' = missing
                /\ ret_requirements' =
                       MapRequirements(standardized_requirements, common2)
                /\ ret_extras_require' =
                       [set_name \in DOMAIN extra_sets2 |->
                           MapRequirements(standardized_requirements,
                                           extra_sets2[set_name])]

\* one call of parse_requirements; the mapping is what its call of
\* track_module returns
ParseRequirements ==
    /\ pr_pc = "idle"
    /\ \E lines \in RequirementsArgs, lib \in Libraries :
       \E extras \in ExtrasArgs(lib), mapping \in Mappings(lib) :
         Partition(lines, lib, extras, mapping)
    /\ UNCHANGED <<aux_vars, MODULE_TO_PKG, world_vars, pc, build_vars, select_vars,
                   flatten_vars, out_vars, rerun_vars>>

NextReq == ParseRequirements

SpecReq == InitReq /\ [][NextReq]_vars

\* ------------------------------------------------------------------------
\* parse_requirements on the mapping track_module computed
\* ------------------------------------------------------------------------

MaxEdgesSetup == 2

\* the requirements lists that are tried with the tracked modules
TrackedRequirementsArgs == { <<>>, <<T>>, <<T, U>> }

\* the rest of parse_requirements once its call of track_module (with default
\* annotation flags, submodules being extras_modules when that is given) returned
ParseTracked ==
    /\ pc = "done"
    /\ pr_pc = "idle"
    /\ flags = NoFlags
    /\ \E lines \in TrackedRequirementsArgs :
         Partition(lines, module_name,
                   IF submodules.names # {}
                   THEN [given |-> TRUE, mods |-> Sorted(submodules.names)]
                   ELSE NoExtras,
                   [m \in DOMAIN deps_out |-> Range(deps_out[m])])
    /\ UNCHANGED <<aux_vars, MODULE_TO_PKG, world_vars, pc, build_vars, select_vars,
                   flatten_vars, out_vars, rerun_vars>>

InitSetup == InitTrack(MaxEdgesSetup)

NextSetup == Next \/ ParseTracked

SpecSetup == InitSetup /\ [][NextSetup]_vars

\* ------------------------------------------------------------------------
\* import_exp: the global mapping of tracked modules and its lookup
\* ------------------------------------------------------------------------

\* the module import_module is asked to track
TrackNames == {L}

\* the modules get_required_imports is asked about
QueryNames == {L, LA}

\* what the tracking subprocess reports for a module: its sorted list of
\* non-standard top-level modules
ReportedDeps == { <<>>, <<T>> }

\* get_required_imports returning an empty list for a module that is not known
RequiredImportsOrEmpty(mapping, name) ==
    IF name \notin DOMAIN mapping
    THEN [name |-> name, outcome |-> "returned", value |-> <<>>]
    ELSE [name |-> name, outcome |-> "returned", value |-> mapping[name]]

\* get_required_imports
RequiredImportsOf(mapping, name) ==
    IF name \notin DOMAIN mapping
    THEN [name |-> name, outcome |-> "ImportError", value |-> <<>>]
    ELSE [name |-> name, outcome |-> "returned", value |-> mapping[name]]

\* _track_deps: the subprocess prints {name: deps} and the result is merged
\* into the global mapping
TrackDeps ==
    /\ \E name \in TrackNames, deps \in ReportedDeps :
         module_dep_mapping' = SetKey(module_dep_mapping, name, deps)
    /\ UNCHANGED <<required_imports, lazy_vars, dis_vars, req_vars, track_vars, main_vars>>

GetRequiredImports ==
    /\ \E name \in QueryNames :
         required_imports' = RequiredImportsOf(module_dep_mapping, name)
    /\ UNCHANGED <<module_dep_mapping, lazy_vars, dis_vars, req_vars, track_vars, main_vars>>

\* parse_requirements and import_exp in one interpreter, with no installed
\* package
InitQuery == InitReq /\ MODULE_TO_PKG = <<>>

NextQuery ==
    \/ ParseRequirements
    \/ TrackDeps
    \/ GetRequiredImports

SpecQuery == InitQuery /\ [][NextQuery]_vars

\* ------------------------------------------------------------------------
\* lazy_import_errors
\* ------------------------------------------------------------------------

\* the packages whose code calls lazy_import_errors and imports modules
Pkgs == {"app", "lib"}

\* modules that no finder of the interpreter can find
MissingNames == {"foobar", "baz"}

\* the deepest nesting of with-blocks
MaxCtxDepth == 2

\* the longest sys.meta_path
MaxFinders == 4

\* the longest chain of attribute accesses that is told apart
MaxAttrDepth == 2

\* the finders of the interpreter, a finder some other library appends, and
\* a _LazyErrorMetaFinder created by code of package p
StdFinder == [kind |-> "std", calling_pkg |-> ""]
OtherFinder == [kind |-> "other", calling_pkg |-> ""]
LazyErrorMetaFinder(p) == [kind |-> "lazy", calling_pkg |-> p]

IsLazyFinder(f) == f.kind = "lazy"

\* _LazyImportErrorCtx.__init__
CtxInit(meta_path, tracking, p) ==
    IF ~tracking /\ meta_path # <<>> /\ ~IsLazyFinder(meta_path[Len(meta_path)])
    THEN Append(meta_path, LazyErrorMetaFinder(p))
    ELSE meta_path

\* _LazyImportErrorCtx.__exit__
RECURSIVE CtxExit(_)
CtxExit(meta_path) ==
    IF meta_path # <<>> /\ IsLazyFinder(meta_path[Len(meta_path)])
    THEN CtxExit(SubSeq(meta_path, 1, Len(meta_path) - 1))
    ELSE meta_path

\* _LazyErrorMetaFinder.find_spec, called while code of package p imports:
\* TRUE when it returns a spec
FindSpec(f, p) ==
    /\ IsLazyFinder(f)
    /\ p = f.calling_pkg

\* the import machinery: the module is taken from sys.modules, or from the
\* first finder of sys.meta_path that returns a spec
ImportOutcome(meta_path, loaded, p, name) ==
    IF name \in loaded \/ \E i \in DOMAIN meta_path : FindSpec(meta_path[i], p)
    THEN "placeholder" ELSE "ModuleNotFoundError"

\* the uses of a _LazyErrorModule: __getattr__ of one of the special module
\* attributes, __getattr__ of any other name, and what ModuleType does
ModuleOps == {"getattr_special", "getattr", "call", "getitem", "hash", "repr"}

ModuleUse(op) ==
    CASE op = "getattr_special" -> "None"
      [] op = "getattr" -> "attr"
      [] op \in {"call", "getitem"} -> "TypeError"
      [] OTHER -> "value"

\* the methods _LazyErrorAttr overrides to raise (one of each family), and
\* the uses it leaves alone
RaisingOps == {"call", "getitem", "eq", "lt", "iter", "hash", "add", "str",
               "contains", "instantiate_subclass"}
AttrOps == RaisingOps \cup {"getattr", "bool", "repr", "subclass"}

AttrUse(op) ==
    CASE op \in RaisingOps -> "ModuleNotFoundError"
      [] op \in {"getattr", "subclass"} -> "attr"
      [] OTHER -> "value"

\* imports of missing modules by code of package p are deferred
Deferring(meta_path, p) == \E i \in DOMAIN meta_path : FindSpec(meta_path[i], p)

\* lazy_import_errors() called by code of package p, as the head of a with
\* statement or as a plain function call
LazyImportErrors ==
    /\ Len(sys_meta_path) < MaxFinders
    /\ \E p \in Pkgs, as_context \in BOOLEAN :
         /\ as_context => Len(ctx_stack) < MaxCtxDepth
         /\ sys_meta_path' = CtxInit(sys_meta_path, TRACKING_MODE, p)
         /\ ctx_stack' = IF as_context
                         THEN Append(ctx_stack,
                                     [pkg |-> p, inner_exited |-> FALSE,
                                      deferring |-> Deferring(sys_meta_path', p)])
                         ELSE ctx_stack
         /\ last_op' = [NoOp EXCEPT !.kind = IF as_context THEN "enter" ELSE "call",
                                    !.pkg = p, !.depth = last_op.depth]
    /\ UNCHANGED <<TRACKING_MODE, lazy_modules, util_vars, dis_vars, req_vars, track_vars, main_vars>>

\* the innermost with-block ends
ExitContext ==
    /\ ctx_stack # <<>>
    /\ sys_meta_path' = CtxExit(sys_meta_path)
    /\ LET rest == SubSeq(ctx_stack, 1, Len(ctx_stack) - 1)
       IN  ctx_stack' = [i \in DOMAIN rest |->
                           IF i = Len(rest) THEN [rest[i] EXCEPT !.inner_exited = TRUE]
                           ELSE rest[i]]
    /\ last_op' = [NoOp EXCEPT !.kind = "exit", !.pkg = ctx_stack[Len(ctx_stack)].pkg,
                               !.depth = last_op.depth]
    /\ UNCHANGED <<TRACKING_MODE, lazy_modules, util_vars, dis_vars, req_vars, track_vars, main_vars>>

EnableTrackingMode ==
    /\ ~TRACKING_MODE
    /\ TRACKING_MODE' = TRUE
    /\ last_op' = [NoOp EXCEPT !.kind = "tracking", !.depth = last_op.depth]
    /\ UNCHANGED <<sys_meta_path, ctx_stack, lazy_modules, util_vars, dis_vars, req_vars,
                   track_vars, main_vars>>

\* some other library appends its own finder
AppendFinder ==
    /\ Len(sys_meta_path) < MaxFinders
    /\ \A i \in DOMAIN sys_meta_path : sys_meta_path[i] # OtherFinder
    /\ sys_meta_path' = Append(sys_meta_path, OtherFinder)
    /\ last_op' = [NoOp EXCEPT !.kind = "append", !.depth = last_op.depth]
    /\ UNCHANGED <<TRACKING_MODE, ctx_stack, lazy_modules, util_vars, dis_vars, req_vars,
                   track_vars, main_vars>>

\* code of package p executes "import name" for a module that cannot be found
ImportMissing ==
    \E p \in Pkgs, name \in MissingNames :
        LET outcome == ImportOutcome(sys_meta_path, lazy_modules, p, name)
        IN  /\ lazy_modules' = IF outcome = "placeholder"
                               THEN lazy_modules \cup {name} ELSE lazy_modules
            /\ last_op' = [NoOp EXCEPT !.kind = "import", !.pkg = p, !.name = name,
                                       !.outcome = outcome, !.depth = last_op.depth]
            /\ UNCHANGED <<sys_meta_path, TRACKING_MODE, ctx_stack, util_vars, dis_vars,
                           req_vars, track_vars, main_vars>>

\* the program uses a placeholder module it has imported
UseModule ==
    /\ lazy_modules # {}
    /\ \E name \in lazy_modules, op \in ModuleOps :
         last_op' = [NoOp EXCEPT !.kind = "use_module", !.name = name, !.op = op,
                                !.outcome = ModuleUse(op),
                                !.depth = IF ModuleUse(op) = "attr" THEN 1 ELSE last_op.depth]
    /\ UNCHANGED <<sys_meta_path, TRACKING_MODE, ctx_stack, lazy_modules, util_vars,
                   dis_vars, req_vars, track_vars, main_vars>>

\* the program uses the attribute it has drawn from a placeholder
UseAttr ==
    /\ last_op.depth >= 1
    /\ \E op \in AttrOps :
         last_op' = [NoOp EXCEPT !.kind = "use_attr", !.op = op, !.outcome = AttrUse(op),
                                !.depth = IF op = "getattr" /\ last_op.depth < MaxAttrDepth
                                          THEN last_op.depth + 1 ELSE last_op.depth]
    /\ UNCHANGED <<sys_meta_path, TRACKING_MODE, ctx_stack, lazy_modules, util_vars,
                   dis_vars, req_vars, track_vars, main_vars>>

\* an interpreter in which nothing of the package has run, with or without a
\* finder of another library on sys.meta_path
InitLazy ==
    /\ TrackIdle
    /\ pr_pc = "idle"
    /\ MODULE_TO_PKG = <<>>
    /\ ReqIdle
    /\ UtilIdle
    /\ DisIdle
    /\ MainIdle
    /\ sys_meta_path \in { <<StdFinder>>, <<StdFinder, OtherFinder>> }
    /\ TRACKING_MODE = FALSE
    /\ ctx_stack = <<>>
    /\ lazy_modules = {}
    /\ last_op = NoOp

NextLazy ==
    \/ LazyImportErrors
    \/ ExitContext
    \/ EnableTrackingMode
    \/ AppendFinder
    \/ ImportMissing
    \/ UseModule
    \/ UseAttr

SpecLazy == InitLazy /\ [][NextLazy]_vars

\* ------------------------------------------------------------------------
\* _get_imports: the walk over the disassembled bytecode of a module
\* ------------------------------------------------------------------------

\* the most statements at the top level of a module
MaxStmts == 2

\* a statement of a module: an import, or a try statement with a body and an
\* except handler
ImportStmt(dots, name, from) ==
    [kind |-> "import", dots |-> dots, name |-> name, from |-> from,
     body |-> <<>>, handler |-> <<>>]
TryStmt(body, handler) ==
    [kind |-> "try", dots |-> 0, name |-> <<>>, from |-> <<>>,
     body |-> body, handler |-> handler]

\* import t; import u; from l import a; from . import a; from l import v
\* (v is a name defined in l/__init__.py, not a sub-module)
ImportStmts ==
    { ImportStmt(0, T, <<>>), ImportStmt(0, U, <<>>),
      ImportStmt(0, L, <<"a">>), ImportStmt(1, <<>>, <<"a">>),
      ImportStmt(0, L, <<"v">>) }

\* the statements inside a try body: an import or a try around one import
InnerStmts == ImportStmts \cup {TryStmt(<<i>>, <<>>) : i \in ImportStmts}

TopStmts ==
    ImportStmts \cup
    {TryStmt(b, h) : b \in {<<>>} \cup {<<x>> : x \in InnerStmts},
                     h \in {<<>>} \cup {<<x>> : x \in ImportStmts}}

\* the lists of at most k top-level statements
RECURSIVE StmtLists(_)
StmtLists(k) ==
    IF k = 0 THEN {<<>>}
    ELSE LET prev == StmtLists(k - 1)
         IN  prev \cup {Append(p, st) : p \in prev, st \in TopStmts}

\* one line of dis output: offset, opcode name and value column (name is the
\* text of a name argument, num the number of a numeric argument or jump target)
Ins(op, name, num) == [off |-> 0, op |-> op, name |-> name, num |-> num]

\* what the compiler emits for an import statement
CompileImport(st) ==
    IF st.from = <<>>
    THEN << Ins("LOAD_CONST", <<>>, st.dots), Ins("LOAD_CONST", <<>>, -1),
            Ins("IMPORT_NAME", st.name, -1), Ins("STORE_NAME", st.name, -1) >>
    ELSE << Ins("LOAD_CONST", <<>>, st.dots), Ins("LOAD_CONST", <<>>, -1),
            Ins("IMPORT_NAME", st.name, -1), Ins("IMPORT_FROM", st.from, -1),
            Ins("STORE_NAME", st.from, -1), Ins("POP_TOP", <<>>, -1) >>

\* what the compiler emits for a list of statements that starts at offset
\* base: a try statement becomes SETUP_FINALLY (to the handler), the body,
\* POP_BLOCK, JUMP_FORWARD, the handler and its epilogue
RECURSIVE Compile(_, _)
Compile(stmts, base) ==
    IF stmts = <<>> THEN <<>>
    ELSE LET st == Head(stmts)
             code ==
                 IF st.kind = "import" THEN CompileImport(st)
                 ELSE LET body == Compile(st.body, base + 2)
                          h == base + 2 + 2 * Len(body) + 4
                          handler == Compile(st.handler, h + 2)
                      IN  << Ins("SETUP_FINALLY", <<>>, h) >> \o body \o
                          << Ins("POP_BLOCK", <<>>, -1), Ins("JUMP_FORWARD", <<>>, -1),
                             Ins("POP_TOP", <<>>, -1) >> \o handler \o
                          << Ins("POP_EXCEPT", <<>>, -1), Ins("JUMP_FORWARD", <<>>, -1),
                             Ins("END_FINALLY", <<>>, -1) >>
         IN  code \o Compile(Tail(stmts), base + 2 * Len(code))

\* the disassembly of a module: every instruction takes two bytes
Disassemble(stmts) ==
    LET code == Compile(stmts, 0) \o
                << Ins("LOAD_CONST", <<>>, -1), Ins("RETURN_VALUE", <<>>, -1) >>
    IN  [i \in DOMAIN code |-> [code[i] EXCEPT !.off = 2 * (i - 1)]]

\* name.split(".")[:-k] joined again
RECURSIVE DropLastParts(_, _)
DropLastParts(name, k) ==
    IF k = 0 THEN name
    ELSE LET dots == {i \in DOMAIN name : name[i] = "."}
         IN  IF dots = {} THEN <<>>
             ELSE LET last == CHOOSE i \in dots : \A j \in dots : j <= i
                  IN  DropLastParts(SubSeq(name, 1, last - 1), k - 1)

\* f"{a}.{b}"
Dotted(a, b) == a \o <<".">> \o b

\* _figure_out_import: the loaded module an import refers to, as a set (empty
\* for None). dots is -1 for None, import_name and import_from are <<>> for None
FigureOutImport(loaded, mod, dots, import_name, import_from) ==
    IF dots <= 0 /\ import_name \in loaded
    THEN IF import_from # <<>> /\ Dotted(import_name, import_from) \in loaded
         THEN {Dotted(import_name, import_from)}
         ELSE {import_name}
    ELSE LET dots1 == IF dots <= 0 THEN 1 ELSE dots
             root_mod_name ==
                 IF dots1 > 1
                 THEN DropLastParts(mod.name, IF mod.in_init THEN dots1 - 1 ELSE dots1)
                 ELSE IF mod.in_init THEN mod.name ELSE DropLastParts(mod.name, 1)
             name1 == IF import_name = <<>> THEN root_mod_name
                      ELSE Dotted(root_mod_name, import_name)
             full_import_candidate == Dotted(name1, import_from)
         IN  IF full_import_candidate \in loaded THEN {full_import_candidate}
             ELSE {name1} \cap loaded

\* open_tries that stay open whatever the line
CloseNoTry(tries, op_num) == tries

\* "Check whether this line ends a try"
CloseTry(tries, op_num) == tries \ {op_num}

\* the modules whose bytecode is walked: the package l and its module l.a
ScannedMods == { [name |-> L, in_init |-> TRUE], [name |-> LA, in_init |-> FALSE] }

\* one iteration of "for line in bcode.dis().split(...)", followed by the
\* assertion and the return when it was the last one
GetImportsLine ==
    /\ gi_pc = "walk"
    /\ line_no <= Len(bcode)
    /\ LET line == bcode[line_no]
           tries1 == CloseTry(open_tries, line.off)
           other == line.op \notin {"LOAD_CONST", "IMPORT_NAME", "IMPORT_FROM"}
           tries2 == IF line.op \in {"SETUP_FINALLY", "SETUP_EXCEPT"}
                     THEN tries1 \cup {line.num} ELSE tries1
           import_mod == FigureOutImport(Modules, gi_mod, current_dots,
                                         current_import_name, current_import_from)
           added == IF other /\ open_import THEN import_mod ELSE {}
           open2 == IF other THEN FALSE ELSE line.op # "LOAD_CONST" \/ open_import
       IN  /\ open_tries' = IF other THEN tries2 ELSE tries1
           /\ current_dots' =
                 CASE line.op = "LOAD_CONST" /\ line.num >= 0 -> line.num
                   [] other /\ line.op # "STORE_NAME" -> -1
                   [] OTHER -> current_dots
           /\ current_import_name' =
                 CASE line.op = "IMPORT_NAME" -> line.name
                   [] other /\ line.op # "STORE_NAME" -> <<>>
                   [] OTHER -> current_import_name
           /\ current_import_from' =
                 CASE line.op = "IMPORT_FROM" -> line.name
                   [] other -> <<>>
                   [] OTHER -> current_import_from
           /\ open_import' = open2
           /\ opt_imports' = IF tries2 # {} THEN opt_imports \cup added ELSE opt_imports
           /\ req_imports' = IF tries2 = {} THEN req_imports \cup added ELSE req_imports
           /\ import_log' =
                 IF added = {} THEN import_log
                 ELSE Append(import_log,
                             [line |-> line_no, target |-> CHOOSE t \in added : TRUE,
                              optional |-> tries2 # {}])
           /\ line_no' = line_no + 1
           /\ gi_pc' = IF line_no < Len(bcode) THEN "walk"
                       ELSE IF open2 THEN "AssertionError" ELSE "returned"
    /\ UNCHANGED <<gi_mod, bcode, recorded_deps, util_vars, lazy_vars, req_vars, track_vars, main_vars>>

\* track_module turns the returned sets into the module's entry of module_deps_map
RecordDeps ==
    /\ gi_pc = "returned"
    /\ recorded_deps' = ModuleDeps(Modules, req_imports, opt_imports)
    /\ gi_pc' = "recorded"
    /\ UNCHANGED <<gi_mod, bcode, line_no, current_dots, current_import_name,
                   current_import_from, open_import, open_tries, req_imports, opt_imports,
                   import_log, util_vars, lazy_vars, req_vars, track_vars, main_vars>>

\* _get_imports is called on a module with one of the given statement lists
InitDisOf(programs) ==
    /\ TrackIdle
    /\ pr_pc = "idle"
    /\ MODULE_TO_PKG = <<>>
    /\ ReqIdle
    /\ UtilIdle
    /\ LazyIdle
    /\ MainIdle
    /\ gi_pc = "walk"
    /\ gi_mod \in ScannedMods
    /\ bcode \in {Disassemble(p) : p \in programs}
    /\ line_no = 1
    /\ current_dots = -1
    /\ current_import_name = <<>>
    /\ current_import_from = <<>>
    /\ open_import = FALSE
    /\ open_tries = {}
    /\ req_imports = {}
    /\ opt_imports = {}
    /\ import_log = <<>>
    /\ recorded_deps = <<>>

\* _get_imports is called on a module of at most MaxStmts statements
InitDis == InitDisOf(StmtLists(MaxStmts))

NextDis ==
    \/ GetImportsLine
    \/ RecordDeps

SpecDis == InitDis /\ [][NextDis]_vars

\* import statements whose absolute name is not a loaded module: import a;
\* from a import b; import z; and relative ones: from .. import a;
\* from .a import b
UnloadedImportStmts ==
    { ImportStmt(0, <<"a">>, <<>>), ImportStmt(0, <<"a">>, <<"b">>),
      ImportStmt(0, <<"z">>, <<>>),
      ImportStmt(2, <<>>, <<"a">>), ImportStmt(1, <<"a">>, <<"b">>) }

\* modules of one statement: an import, alone or in a try block
OneImportPrograms ==
    LET stmts == ImportStmts \cup UnloadedImportStmts
    IN  {<<st>> : st \in stmts} \cup {<<TryStmt(<<st>>, <<>>)>> : st \in stmts}

InitResolve == InitDisOf(OneImportPrograms)

SpecResolve == InitResolve /\ [][NextDis]_vars

\* ------------------------------------------------------------------------
\* __main__.main: the recursion over the sub-modules, in a pool of worker
\* threads or one after the other
\* ------------------------------------------------------------------------

\* the largest --num_jobs
MaxJobs == 2

\* the name given as --name
full_module_name == L

\* sys.modules after the import of the target: the loaded modules whose name
\* begins with the target's
LoadedSets == { {L, LA}, {L, LA, LAB}, {L, LA, LAB, LX} }

\* the values of --submodules: not given, or a list
SubmodulesLists == { {}, {LA, LAB} }

\* the import sets a tracked module may have
MainDepSets == { {T}, {T, U} }

\* lines 558-563, for sys.modules.keys() in the order keys
AllInternals(keys) ==
    LET IsInternal(downstream) ==
            StartsWith(downstream, full_module_name) /\ downstream # full_module_name
    IN  SelectSeq(keys, IsInternal)

\* lines 567-573
RecursiveInternals(all_internals, subs) ==
    LET Listed(downstream) == downstream \in subs
    IN  IF subs # {} THEN SelectSeq(all_internals, Listed) ELSE all_internals

\* what track_module(module_name=mod, recursive=False) returns: the mapping
\* of that one module, as the items dict.update is given
JobResult(mod, deps) == <<[mod |-> mod, deps |-> deps[mod]]>>

\* a future whose result is read without waiting for the job
ResultReadyAlways(future) == TRUE

\* future.result() returns once the job is done
ResultReady(future) == future.state = "done"

\* lines 629-636: every value sorted, the keys in the order of the mapping
OutputDict(mapping) ==
    [i \in DOMAIN mapping |-> [mod |-> mapping[i].mod, deps |-> Sorted(mapping[i].deps)]]

\* pool.submit: one iteration of the loop at lines 588-595
Submit ==
    /\ mn_pc = "submit"
    /\ LET internal_downstream == recursive_internals[Len(futures) + 1]
       IN  futures' = Append(futures, [mod |-> internal_downstream, state |-> "pending",
                                       result |-> <<>>])
    /\ mn_pc' = IF Len(futures) + 1 = Len(recursive_internals) THEN "wait" ELSE "submit"
    /\ UNCHANGED <<num_jobs, recursive_internals, job_deps, merge_idx, downstream_mapping,
                   completed, output_dict, util_vars, lazy_vars, dis_vars, req_vars, track_vars>>

\* a free worker thread takes the oldest job of the queue
StartJob ==
    /\ Cardinality({i \in DOMAIN futures : futures[i].state = "running"}) < num_jobs
    /\ \E i \in DOMAIN futures :
         /\ futures[i].state = "pending"
         /\ \A j \in 1..(i-1) : futures[j].state # "pending"
         /\ futures' = [futures EXCEPT ![i].state = "running"]
    /\ UNCHANGED <<mn_pc, num_jobs, recursive_internals, job_deps, merge_idx,
                   downstream_mapping, completed, output_dict, util_vars, lazy_vars,
                   dis_vars, req_vars, track_vars>>

\* a running job returns: its result is stored in its future
FinishJob ==
    /\ \E i \in DOMAIN futures :
         /\ futures[i].state = "running"
         /\ futures' = [futures EXCEPT ![i].state = "done",
                                       ![i].result = JobResult(futures[i].mod, job_deps)]
         /\ completed' = Append(completed, futures[i].mod)
    /\ UNCHANGED <<mn_pc, num_jobs, recursive_internals, job_deps, merge_idx,
                   downstream_mapping, output_dict, util_vars, lazy_vars, dis_vars,
                   req_vars, track_vars>>

\* one iteration of "for future in futures" (lines 598-599)
Merge ==
    /\ mn_pc = "wait"
    /\ ResultReady(futures[merge_idx])
    /\ downstream_mapping' = DictUpdate(downstream_mapping, futures[merge_idx].result)
    /\ merge_idx' = merge_idx + 1
    /\ mn_pc' = IF merge_idx = Len(futures) THEN "print" ELSE "wait"
    /\ UNCHANGED <<num_jobs, recursive_internals, job_deps, futures, completed, output_dict,
                   util_vars, lazy_vars, dis_vars, req_vars, track_vars>>

\* one iteration of the loop at lines 602-611
TrackSequential ==
    /\ mn_pc = "sequential"
    /\ LET internal_downstream == recursive_internals[merge_idx]
       IN  /\ downstream_mapping' =
                 DictUpdate(downstream_mapping, JobResult(internal_downstream, job_deps))
           /\ completed' = Append(completed, internal_downstream)
    /\ merge_idx' = merge_idx + 1
    /\ mn_pc' = IF merge_idx = Len(recursive_internals) THEN "print" ELSE "sequential"
    /\ UNCHANGED <<num_jobs, recursive_internals, job_deps, futures, output_dict,
                   util_vars, lazy_vars, dis_vars, req_vars, track_vars>>

\* lines 624-639
PrintOutput ==
    /\ mn_pc = "print"
    /\ output_dict' = OutputDict(downstream_mapping)
    /\ mn_pc' = "done"
    /\ UNCHANGED <<num_jobs, recursive_internals, job_deps, futures, merge_idx,
                   downstream_mapping, completed, util_vars, lazy_vars, dis_vars, req_vars,
                   track_vars>>

\* main --recursive after the import of the target (lines 549-583)
InitMain ==
    /\ TrackIdle
    /\ pr_pc = "idle"
    /\ MODULE_TO_PKG = <<>>
    /\ ReqIdle
    /\ UtilIdle
    /\ LazyIdle
    /\ DisIdle
    /\ num_jobs \in 0..MaxJobs
    /\ \E loaded \in LoadedSets, subs \in SubmodulesLists :
         \E keys \in Perms(loaded) :
            recursive_internals = RecursiveInternals(AllInternals(keys), subs)
    /\ job_deps \in [UNION LoadedSets -> MainDepSets]
    /\ futures = <<>>
    /\ merge_idx = 1
    /\ downstream_mapping = <<[mod |-> full_module_name, deps |-> job_deps[full_module_name]]>>
    /\ completed = <<>>
    /\ output_dict = <<>>
    /\ mn_pc = IF recursive_internals = <<>> THEN "print"
               ELSE IF num_jobs > 0 THEN "submit" ELSE "sequential"

NextMain ==
    \/ Submit
    \/ StartJob
    \/ FinishJob
    \/ Merge
    \/ TrackSequential
    \/ PrintOutput

SpecMain == InitMain /\ [][NextMain]_vars

\* ------------------------------------------------------------------------
\* What the claims speak about
\* ------------------------------------------------------------------------

\* the modules _get_imports was run on
Scanned == {m \in Modules : extracted[m] > 0}

\* the import statements of m that survive the classification
DirectImports(m) == GetNonStdModules(sys_modules, imports[m].req \cup imports[m].opt)

\* the strict ancestor packages of m
Ancestors(m) == Range(StrictParents(m))

\* m is outside the tracked root package
Outside(m) == Partition0(m) # Partition0(module_name)

\* the imports of a scanned module after it was given the direct third-party
\* imports of its scanned ancestors; a module that was not scanned is a leaf
AugmentedImports(m) ==
    IF m \notin Scanned THEN {}
    ELSE DirectImports(m) \cup
         {d \in UNION {DirectImports(p) : p \in Ancestors(m) \cap Scanned} :
             Partition0(d) # Partition0(m)}

RECURSIVE ReachableVia(_)
ReachableVia(R) ==
    LET R2 == R \cup UNION {AugmentedImports(m) : m \in R}
    IN  IF R2 = R THEN R ELSE ReachableVia(R2)

\* the root names of the outside modules reachable from target t
ExpectedClosure(t) ==
    {Partition0(d) : d \in {x \in ReachableVia(AugmentedImports(t)) : Outside(x)}}

\* the dependency names track_module reports for output module t
Reported(t) ==
    IF flags = NoFlags THEN Range(deps_out[t]) ELSE DOMAIN deps_out[t]

\* C1: for every target the reported dependency names are exactly the root names
\* of the modules outside the tracked root package that are reachable from the
\* target through the scanned modules, each scanned module having been given the
\* direct third-party imports of its ancestors; without an annotation flag the
\* value is that set as a sorted list.
C1_ClosureIsReachableRoots ==
    pc = "done" =>
        \A t \in DOMAIN deps_out :
            /\ Reported(t) = ExpectedClosure(t)
            /\ flags = NoFlags => deps_out[t] = Sorted(ExpectedClosure(t))

\* C2: when a strict ancestor package p of a scanned internal module m directly
\* imports a module of the third-party root r, r is in m's closure; when m does
\* not itself import r, <<p, m>> is among the stacks recorded for r and r is
\* typed transitive for m.
C2_AncestorImportReachesDescendant ==
    pc = "done" /\ flags.detect_transitive /\ flags.track_import_stack =>
        \A m \in DOMAIN deps_out : ~Outside(m) =>
            \A p \in Ancestors(m) : \A d \in DirectImports(p) : Outside(d) =>
                LET r == Partition0(d) IN
                /\ r \in DOMAIN deps_out[m]
                /\ (\A x \in DirectImports(m) : Partition0(x) # r) =>
                       /\ <<p, m>> \in Range(deps_out[m][r]["stack"])
                       /\ deps_out[m][r]["type"] = TYPE_TRANSITIVE

\* C3: a reported third-party root r is typed direct for target t exactly when
\* t itself imports a module of r, guarded or not, whatever its ancestors import.
C3_DirectIffTargetImports ==
    pc = "done" /\ flags.detect_transitive =>
        \A t \in DOMAIN deps_out : \A r \in DOMAIN deps_out[t] :
            deps_out[t][r]["type"] = TYPE_DIRECT
                <=> \E d \in DirectImports(t) : Partition0(d) = r

\* the unguarded imports that loading m executes: its own and, for the outside
\* modules, those of its ancestor packages
RequiredImports(m) ==
    GetNonStdModules(sys_modules, imports[m].req) \cup
    {d \in UNION {GetNonStdModules(sys_modules, imports[p].req) : p \in Ancestors(m)} :
        Partition0(d) # Partition0(m)}

RECURSIVE RequiredReach(_)
RequiredReach(R) ==
    LET R2 == R \cup UNION {RequiredImports(m) : m \in R}
    IN  IF R2 = R THEN R ELSE RequiredReach(R2)

\* C4: a reported third-party root r is flagged optional for target t exactly
\* when no chain of imports from t to a module of r has every edge unguarded.
C4_OptionalIffNoRequiredChain ==
    pc = "done" /\ flags.show_optional =>
        \A t \in DOMAIN deps_out : \A r \in DOMAIN deps_out[t] :
            deps_out[t][r]["optional"]
                <=> ~\E d \in RequiredReach(RequiredImports(t)) : Partition0(d) = r

\* the keys the submodules argument asks for
ExpectedKeys ==
    {module_name} \cup
    (IF submodules.all
     THEN {m \in Scanned : ~Outside(m) /\ StartsWith(m, module_name \o <<".">>)}
     ELSE submodules.names \cap Scanned)

\* C5: the keys of the result are the target alone when submodules is False,
\* the target plus every scanned internal dotted descendant of the target (and
\* no other module) when it is True, the target plus the listed scanned modules
\* when it is a list.
C5_OutputKeys ==
    pc = "done" => DOMAIN deps_out = ExpectedKeys

\* C6: a second run with the same arguments on the same modules returns the
\* same mapping as the first, whatever order sets and dicts are iterated in.
C6_SecondRunReturnsTheSame ==
    pc = "done" /\ run = 2 => deps_out = prev_out

\* the third-party roots some internal module imports
ImportedByInternal ==
    {Partition0(d) : d \in {x \in UNION {DirectImports(m) : m \in {i \in Modules : ~Outside(i)}} :
                               Outside(x)}}

\* C7: without full_depth no module outside the tracked root package is
\* extracted and every reported package is imported by an internal module; with
\* full_depth the outside modules that scanned modules import are extracted too
\* and a package reachable only through another third-party package is in the
\* closure, typed transitive.
C7_FullDepth ==
    /\ ~full_depth => \A m \in Scanned : ~Outside(m)
    /\ pc = "done" /\ ~full_depth =>
           \A t \in DOMAIN deps_out : Reported(t) \subseteq ImportedByInternal
    /\ pc = "done" /\ full_depth =>
           /\ \A m \in Scanned : DirectImports(m) \subseteq Scanned
           /\ \A t \in DOMAIN deps_out : ~Outside(t) =>
                  \A r \in ExpectedClosure(t) \ ImportedByInternal :
                      /\ r \in Reported(t)
                      /\ flags.detect_transitive =>
                             deps_out[t][r]["type"] = TYPE_TRANSITIVE

\* the groups of the tracked modules in the returned extras
ModuleGroups == DOMAIN import_sets

\* base united with the groups of the tracked modules is the all group, and
\* base shares no entry with the group of a tracked module
BaseAndGroupsPartitionAll ==
    /\ ALL_GROUP \in DOMAIN ret_extras_require
    /\ Range(ret_requirements) \cup
           UNION {Range(ret_extras_require[g]) : g \in ModuleGroups}
         = Range(ret_extras_require[ALL_GROUP])
    /\ \A g \in ModuleGroups :
           Range(ret_requirements) \cap Range(ret_extras_require[g]) = {}

\* C8 (as stated): for every input of parse_requirements, base united with all
\* per-module groups equals the all group and base shares no requirement with
\* any per-module group.
C8_PartitionForEveryInput ==
    pr_pc = "done" => BaseAndGroupsPartitionAll

\* C8 (amended): for every input of parse_requirements in which no tracked
\* module is itself named "all", base united with all per-module groups equals
\* the all group and base shares no requirement with any per-module group.
C8_PartitionUnlessModuleNamedAll ==
    pr_pc = "done" /\ ALL_GROUP \notin ModuleGroups => BaseAndGroupsPartitionAll

\* C8: a call that returns a non-empty base, a non-empty group of a tracked
\* module and an untracked declared requirement
C8_Witness ==
    /\ pr_pc = "done"
    /\ ALL_GROUP \notin ModuleGroups
    /\ missing_reqs # {}
    /\ ret_requirements # <<>>
    /\ \E g \in ModuleGroups : ret_extras_require[g] # <<>>
    /\ \E g \in ModuleGroups :
           Range(ret_extras_require[g]) # Range(ret_extras_require[ALL_GROUP])

\* C9: every declared requirement whose distribution is in the closure of no
\* tracked module is in the base requirements and in the all group, and in no
\* per-module group.
C9_UntrackedRequirementGoesToBase ==
    pr_pc = "done" =>
        \A k \in DOMAIN requirements :
            (\A g \in ModuleGroups : \A d \in import_sets[g] :
                 StandardizePackageName(d) # k)
            => /\ requirements[k] \in Range(ret_requirements)
               /\ ALL_GROUP \in DOMAIN ret_extras_require
               /\ requirements[k] \in Range(ret_extras_require[ALL_GROUP])
               /\ \A g \in ModuleGroups \ {ALL_GROUP} :
                      requirements[k] \notin Range(ret_extras_require[g])

\* the lines of the argument that declare a requirement, stripped
DeclaredTexts ==
    {Strip(requirements_lines[i]) :
        i \in {j \in DOMAIN requirements_lines :
                 /\ Strip(requirements_lines[j]) # <<>>
                 /\ ~StartsWith(requirements_lines[j], <<"#">>)}}

\* the declared requirements whose name equals, after normalisation, one of names
SelectedBy(names) ==
    {requirements[k] :
        k \in {x \in DOMAIN requirements :
                 \E dep \in names : StandardizePackageName(dep) = x}}

\* C10: every emitted entry is the stripped text of a declared requirement, and
\* a discovered name selects a declared requirement exactly when the two names
\* are equal after normalisation (lower case, "-" and "_" interchangeable), so
\* that a name with no declared match emits nothing.
C10_SelectionByNormalisedName ==
    pr_pc = "done" =>
        /\ Range(ret_requirements) \subseteq DeclaredTexts
        /\ Range(ret_requirements) = SelectedBy(common_imports)
        /\ \A g \in DOMAIN ret_extras_require :
               /\ Range(ret_extras_require[g]) \subseteq DeclaredTexts
               /\ Range(ret_extras_require[g]) = SelectedBy(extras_require_sets[g])

\* the packages the tracked module m needs
PackagesOf(m) ==
    GetRequiredPackagesForImports(MODULE_TO_PKG, library_import_mapping[m])

\* the modules named in extras_modules
ExtrasMods == Range(extras_modules.mods)

\* C11: when extras_modules names only some modules of the library, a declared
\* dependency some module outside the extras modules needs is in base, and a
\* declared dependency only one extras module needs is in that module's group
\* (also when it is the single extras module).
C11_ExtrasSubsetAllocation ==
    pr_pc = "done" /\ extras_modules.mods # <<>> =>
        \A d \in UNION {PackagesOf(m) : m \in DOMAIN library_import_mapping} :
            ReplaceDash(d) \in DOMAIN requirements =>
                LET entry == requirements[ReplaceDash(d)] IN
                /\ (\E m \in DOMAIN library_import_mapping \ ExtrasMods :
                        d \in PackagesOf(m))
                       => entry \in Range(ret_requirements)
                /\ \A x \in ExtrasMods :
                       (/\ d \in PackagesOf(x)
                        /\ \A m \in DOMAIN library_import_mapping \ {x} :
                               d \notin PackagesOf(m))
                       => entry \in Range(ret_extras_require[x])

\* C12: called with extras_modules = [], parse_requirements returns the whole
\* declared list as base and no non-empty group other than the all group.
C12_EmptyExtrasList ==
    pr_pc = "done" /\ extras_modules = [given |-> TRUE, mods |-> <<>>] =>
        /\ Range(ret_requirements) = DeclaredTexts
        /\ \A g \in DOMAIN ret_extras_require \ {ALL_GROUP} :
               ret_extras_require[g] = <<>>

\* the third-party root r is in the closure of x and every chain of imports
\* from x to it passes a guarded import
OnlyOptionalFor(x, r) ==
    /\ r \in Range(deps_out[x])
    /\ ~\E d \in RequiredReach(RequiredImports(x)) : Partition0(d) = r

\* C13: with keep_optional not given, a declared dependency that is only
\* optional for an extras module is not in that module's extras group.
C13_OptionalLeftOutOfGroup ==
    pr_pc = "done" /\ pc = "done" =>
        \A x \in ModuleGroups : \A r \in DOMAIN requirements :
            OnlyOptionalFor(x, r) => requirements[r] \notin Range(ret_extras_require[x])

\* C19: during one track_module call _get_imports is run on every module at
\* most once, whatever the import graph and the order of a round's modules.
C19_ExtractedAtMostOnce ==
    \A m \in Modules : extracted[m] <= 1

\* C20: every call of track_module ends: the discovery loop and then every
\* flattening loop run out of modules to check, whatever the import graph.
C20_TrackModuleTerminates ==
    <>(pc = "done")

\* a call ended in a world where l and l.a import each other and l imports itself
C20_Witness ==
    /\ pc = "done"
    /\ LA \in imports[L].req \cup imports[L].opt
    /\ L \in imports[LA].req \cup imports[LA].opt
    /\ L \in imports[L].req

\* an extras module that parse_requirements was given and track_module did
\* not report
UnknownExtras == {mod \in Range(extras_modules.mods) : mod \notin DOMAIN library_import_mapping}

\* C14: parse_requirements given an extras module that is not in the tracked
\* mapping raises and returns nothing, and get_required_imports only returns
\* a list for a module that was tracked: for any other it raises ImportError.
C14_UntrackedIsAnError ==
    /\ pr_pc # "idle" /\ UnknownExtras # {} =>
          /\ pr_pc = "AssertionError"
          /\ ret_requirements = <<>>
          /\ ret_extras_require = <<>>
    /\ required_imports.outcome = "returned" =>
          required_imports.name \in DOMAIN module_dep_mapping
    /\ required_imports.outcome # "none"
          /\ required_imports.name \notin DOMAIN module_dep_mapping =>
          required_imports.outcome = "ImportError"

\* parse_requirements was given an unknown extras module, and the imports of
\* l.a were asked for after l was tracked but not l.a
C14_Witness ==
    /\ pr_pc = "AssertionError"
    /\ UnknownExtras # {}
    /\ DOMAIN module_dep_mapping = {L}
    /\ required_imports.name = LA
    /\ required_imports.outcome = "ImportError"

\* the uses of a placeholder attribute that are not meaningful
NonMeaningfulUses == {"getattr", "getattr_special", "bool", "repr", "subclass"}

\* C15: inside a with lazy_import_errors() block the import of a module that
\* cannot be found yields a placeholder, and ModuleNotFoundError comes only
\* from a meaningful use of a placeholder or of an attribute drawn from it.
C15_DeferredUntilMeaningfulUse ==
    /\ last_op.kind = "import" /\ ctx_stack # <<>> => last_op.outcome = "placeholder"
    /\ last_op.kind # "import" /\ last_op.outcome = "ModuleNotFoundError" =>
          /\ last_op.kind \in {"use_module", "use_attr"}
          /\ last_op.op \notin NonMeaningfulUses

\* C16: in the body of a with-block whose imports were deferred when it was
\* entered, after a nested with-block has been entered and exited, an import
\* of a missing module by the same package is still deferred.
C16_EnclosingContextStillDefers ==
    LET enclosing == ctx_stack[Len(ctx_stack)]
    IN  (/\ ctx_stack # <<>>
         /\ enclosing.inner_exited
         /\ enclosing.deferring
         /\ last_op.kind = "import"
         /\ last_op.pkg = enclosing.pkg)
        => last_op.outcome = "placeholder"

\* the guarded regions that are open at line i of the disassembly: opened at
\* or before it, with an end offset greater than its offset
OpenRegions(i) ==
    {j \in 1..i : /\ bcode[j].op \in {"SETUP_FINALLY", "SETUP_EXCEPT"}
                  /\ bcode[j].num > bcode[i].off}

\* the lines of the disassembly the loop has been through
LinesDone == IF gi_pc = "walk" THEN line_no - 1 ELSE Len(bcode)

\* C17: _get_imports puts an import in the optional set exactly when a guarded
\* region with a greater end offset is open at the instruction that closes the
\* import, and no region stays open at or after the instruction at its end
\* offset, so that an import after every try block is required.
C17_OptionalIffOpenRegion ==
    /\ \A k \in DOMAIN import_log :
           import_log[k].optional <=> OpenRegions(import_log[k].line) # {}
    /\ opt_imports = {import_log[k].target : k \in {i \in DOMAIN import_log : import_log[i].optional}}
    /\ req_imports = {import_log[k].target : k \in {i \in DOMAIN import_log : ~import_log[i].optional}}
    /\ LinesDone >= 1 => \A e \in open_tries : e > bcode[LinesDone].off

\* the walk returned for a module with an import inside a try block and an
\* import after the end of a try block
C17_Witness ==
    /\ gi_pc = "returned"
    /\ \E k \in DOMAIN import_log : import_log[k].optional
    /\ \E k \in DOMAIN import_log :
          /\ ~import_log[k].optional
          /\ \E j \in 1..import_log[k].line : bcode[j].op = "SETUP_FINALLY"

\* C18: a module that _get_imports found imported outside every guarded
\* region is a required dependency in module_deps_map, and the required and
\* the optional set that _get_imports returns are disjoint.
C18_RequiredStaysRequired ==
    gi_pc = "recorded" =>
        /\ req_imports \cap opt_imports = {}
        /\ \A k \in DOMAIN import_log :
               ~import_log[k].optional /\ import_log[k].target \in DOMAIN recorded_deps
                   => ~recorded_deps[import_log[k].target]

\* has a stack of modules the same module at two positions
HasRepeat(stack) == \E i, j \in DOMAIN stack : i < j /\ stack[i] = stack[j]

\* C21: no stack that _flatten_deps records for a dependency contains the
\* same module twice.
C21_NoModuleTwiceOnAStack ==
    \A dep \in DOMAIN all_deps :
        \A k \in DOMAIN all_deps[dep] : ~HasRepeat(all_deps[dep][k])

\* C22: when graph building has finished, every loaded strict ancestor package
\* of every scanned module of the library, the target included, is a scanned
\* node of the graph as well.
C22_AncestorsAreScanned ==
    pc # "build" =>
        \A m \in DOMAIN module_deps_map : ~Outside(m) =>
            \A p \in Ancestors(m) : p \in sys_modules => p \in DOMAIN module_deps_map

\* C23: the entry of module_deps_map that track_module records for a module
\* never has the module itself as a key, whatever import statements (absolute,
\* relative, from-import of an attribute) the module contains.
C23_NoSelfLoop ==
    gi_pc = "recorded" => gi_mod.name \notin DOMAIN recorded_deps

\* C24: the internal rule of the classification comes first: an imported
\* module of the tracked root package is kept as a node of the graph even when
\* it has no file path; only modules outside the package are dropped for having
\* no file path or a file in the standard library directories.
C24_InternalRuleFirst ==
    pc # "build" =>
        \A m \in DOMAIN module_deps_map :
            \A d \in imports[m].req \cup imports[m].opt :
                (d \in sys_modules /\ ~Outside(d)) =>
                    /\ d \in DOMAIN module_deps_map[m]
                    /\ d \in DOMAIN module_deps_map

\* the third-party modules whose name begins with the name of the tracked
\* root package without being in it
PrefixNamed == {d \in Modules : Outside(d) /\ StartsWith(d, Partition0(module_name))}

\* C25: a third-party package whose name only begins with the tracked root's
\* name is in the closure of every module of the library that imports it, and
\* of every module whose scanned ancestor package imports it.
C25_PrefixNamedThirdPartyIsReported ==
    pc \in {"format", "done"} =>
        \A m \in DOMAIN flattened_deps : ~Outside(m) =>
            \A p \in ({m} \cup Ancestors(m)) \cap Scanned :
                \A d \in DirectImports(p) \cap PrefixNamed :
                    Partition0(d) \in DOMAIN flattened_deps[m].deps

\* _find_parent_direct_deps has just returned
Augmented == pc = "flatten" /\ flat_mod = {} /\ flattened_deps = <<>>

\* C26: _find_parent_direct_deps run again on the map it has augmented, with
\* the modules in any order, leaves every edge and every optional flag of the
\* map as it is.
C26_AugmentationIsIdempotent ==
    Augmented =>
        \A order \in Perms(DOMAIN module_deps_map) :
            FindParentDirectDeps(order, [map |-> module_deps_map, pdd |-> {}]).map
                = module_deps_map

\* the map was augmented for l.a.b, which took t from both of its parents, one
\* importing it inside a try block and the other one outside
C26_Witness ==
    /\ Augmented
    /\ <<LAB, L, T>> \in parent_direct_deps
    /\ T \in imports[L].opt \ imports[L].req
    /\ T \in imports[LA].req
    /\ T \notin imports[LAB].req \cup imports[LAB].opt
    /\ ~module_deps_map[LAB][T]

\* the IMPORT_NAME instruction of the import statement that is closed at line i
ImportNameLine(i) ==
    CHOOSE j \in 1..i : /\ bcode[j].op = "IMPORT_NAME"
                        /\ \A k \in (j+1)..i : bcode[k].op # "IMPORT_NAME"

\* C27: an import with dot count 0 is resolved to its absolute name, or to
\* name.from when that is a loaded sub-module, and to nothing else: when the
\* absolute name is not loaded no module is added for it.
C27_AbsoluteImportByAbsoluteName ==
    \A k \in DOMAIN import_log :
        LET j == ImportNameLine(import_log[k].line)
            name == bcode[j].name
            from == IF bcode[j+1].op = "IMPORT_FROM" THEN bcode[j+1].name ELSE <<>>
        IN  bcode[j-2].num = 0 =>
                \/ import_log[k].target = name
                \/ from # <<>> /\ import_log[k].target = Dotted(name, from)

\* C28: when a lazy_import_errors context has just exited, sys.meta_path
\* holds no _LazyErrorMetaFinder, whatever finders other libraries appended
\* between its entry and its exit.
C28_NoLazyFinderAfterExit ==
    last_op.kind = "exit" =>
        \A i \in DOMAIN sys_meta_path : ~IsLazyFinder(sys_meta_path[i])

\* is m a module of the tracking package
InThisPackage(m) == Partition0(m) = THIS_PACKAGE

\* no module of the tracking package is a dependency in the graph or in a
\* returned closure, and none was extracted
TrackerLeftOut ==
    /\ \A m \in DOMAIN module_deps_map :
           \A d \in DOMAIN module_deps_map[m] : ~InThisPackage(d)
    /\ \A m \in DOMAIN flattened_deps :
           \A r \in DOMAIN flattened_deps[m].deps : ~InThisPackage(r)
    /\ \A m \in Modules : InThisPackage(m) => extracted[m] = 0

\* C30: the tracking package is never a dependency of any module and none of
\* its modules is ever extracted, whatever module track_module is called on.
C30_TrackerLeftOut ==
    TrackerLeftOut

\* C30, for a target outside the tracking package: the tracking package is
\* never a dependency of any module and none of its modules is extracted.
C30_TrackerLeftOutOfOtherTargets ==
    ~InThisPackage(module_name) => TrackerLeftOut

\* a call on l ended in a world where l and a scanned third-party module
\* import the tracking package
C30_Witness ==
    /\ pc = "done"
    /\ module_name = L
    /\ IT \in imports[L].req
    /\ IT \in imports[T].req \cup imports[T].opt
    /\ extracted[T] > 0

\* the mapping main builds when it recurses on the sub-modules one after the
\* other (lines 602-611)
RECURSIVE SequentialMapping(_, _)
SequentialMapping(mapping, internals) ==
    IF internals = <<>> THEN mapping
    ELSE SequentialMapping(DictUpdate(mapping, JobResult(Head(internals), job_deps)),
                           Tail(internals))

====
